---- MODULE Spec2Model ----
(***************************************************************************)
(* Solar rooftop analyzer (src/app.py): the response cleaner, the result   *)
(* validator, the coordinate check, the report visualize_detailed_report   *)
(* and the retry controller analyze_with_retry as driven by                *)
(* perform_analysis and the two buttons.                                   *)
(*                                                                         *)
(* Python values are tagged records (Num, Bool, Str, List, Dict, ...).     *)
(* Text is a sequence of one-character strings.  A Python call that can    *)
(* raise is an operator returning [exc |-> <exception name or "none">,     *)
(* val |-> <value>].                                                       *)
(***************************************************************************)
EXTENDS Integers, Sequences, FiniteSets, TLC

VARIABLES pc, mode, lat, lon, attempt, calls, response, raw_text, vlog,
          warnings, errors, debug, result, handed, presented, arg, ret

vars == <<pc, mode, lat, lon, attempt, calls, response, raw_text, vlog,
          warnings, errors, debug, result, handed, presented, arg, ret>>

(***************************************************************************)
(* Python values                                                           *)
(***************************************************************************)
None == [t |-> "null"]

Num(n) == [t |-> "num", n |-> n]

Bool(b) == [t |-> "bool", b |-> b]

\* float('nan'), which json.loads produces for the literal NaN
NaN == [t |-> "nan"]

\* a str, abstracted to the set of section names occurring in it as substrings
Str(has) == [t |-> "str", has |-> has]

\* a list, abstracted to the set of strings that are elements of it
List(has) == [t |-> "list", has |-> has]

\* a dict: a function from its keys to values
Dict(d) == [t |-> "dict", d |-> d]

IsDict(v) == v.t = "dict"

\* int, float (NaN apart) and bool (an int subclass) order like numbers
IsOrdered(v) == v.t \in {"num", "bool"}

NumVal(v) == IF v.t = "num" THEN v.n ELSE IF v.b THEN 1 ELSE 0

Ok(v) == [exc |-> "none", val |-> v]

Raise(e) == [exc |-> e, val |-> None]

\* key in obj
Contains(obj, key) ==
    CASE obj.t = "dict" -> Ok(Bool(key \in DOMAIN obj.d))
      [] obj.t \in {"str", "list"} -> Ok(Bool(key \in obj.has))
      [] OTHER -> Raise("TypeError")

\* obj[key] for a str key
GetItem(obj, key) ==
    CASE obj.t = "dict" -> IF key \in DOMAIN obj.d THEN Ok(obj.d[key])
                                                   ELSE Raise("KeyError")
      [] OTHER -> Raise("TypeError")

\* a < b (strict) or a <= b
Compare(a, b, strict) ==
    CASE IsOrdered(a) /\ IsOrdered(b) ->
             Ok(Bool(IF strict THEN NumVal(a) < NumVal(b)
                               ELSE NumVal(a) <= NumVal(b)))
      [] a.t \in {"num", "bool", "nan"} /\ b.t \in {"num", "bool", "nan"} ->
             Ok(Bool(FALSE))
      [] OTHER -> Raise("TypeError")

(***************************************************************************)
(* validate_coordinates                                                    *)
(***************************************************************************)
LAT_LIMIT == 90

LON_LIMIT == 180

\* the longitude test forgotten
validate_coordinates_lat_only(la, lo) ==
    -LAT_LIMIT <= la /\ la <= LAT_LIMIT

validate_coordinates(la, lo) ==
    /\ -LAT_LIMIT <= la /\ la <= LAT_LIMIT
    /\ -LON_LIMIT <= lo /\ lo <= LON_LIMIT

(***************************************************************************)
(* validate_solar_data                                                     *)
(***************************************************************************)
required_sections ==
    <<"location_analysis", "technical_specifications",
      "energy_production", "financial_analysis">>

MAX_CAPACITY_KW == 1000

\* for section in required_sections: if section not in data: return False
RECURSIVE CheckSections(_, _)
CheckSections(data, i) ==
    IF i > Len(required_sections) THEN Ok(Bool(TRUE))
    ELSE LET c == Contains(data, required_sections[i]) IN
         IF c.exc # "none" THEN c
         ELSE IF ~c.val.b THEN Ok(Bool(FALSE))
         ELSE CheckSections(data, i + 1)

\* the upper end written strict: 0 < x < upper
RangeCheck_strict_upper(x, upper) ==
    IF x.exc # "none" THEN x
    ELSE LET lo == Compare(Num(0), x.val, TRUE) IN
         IF lo.exc # "none" THEN lo
         ELSE IF ~lo.val.b THEN Ok(Bool(FALSE))
         ELSE IF upper.exc # "none" THEN upper
         ELSE Compare(x.val, upper.val, TRUE)

\* the comparison written without its upper end: 0 < x
RangeCheck_no_upper(x, upper) ==
    IF x.exc # "none" THEN x ELSE Compare(Num(0), x.val, TRUE)

\* the chained comparison 0 < x <= upper: x is looked up first, upper only
\* when 0 < x holds
RangeCheck(x, upper) ==
    IF x.exc # "none" THEN x
    ELSE LET lo == Compare(Num(0), x.val, TRUE) IN
         IF lo.exc # "none" THEN lo
         ELSE IF ~lo.val.b THEN Ok(Bool(FALSE))
         ELSE IF upper.exc # "none" THEN upper
         ELSE Compare(x.val, upper.val, FALSE)

\* the body of the try block: Ok(Bool(verdict)) or the exception it raises
ValidateBody(data) ==
    LET secs == CheckSections(data, 1) IN
    IF secs.exc # "none" THEN secs
    ELSE IF ~secs.val.b THEN Ok(Bool(FALSE))
    ELSE LET tech == GetItem(data, "technical_specifications") IN
         IF tech.exc # "none" THEN tech
         ELSE LET area == RangeCheck(GetItem(tech.val, "usable_roof_area_m2"),
                                     GetItem(tech.val, "total_roof_area_m2")) IN
              IF area.exc # "none" THEN area
              ELSE IF ~area.val.b THEN Ok(Bool(FALSE))
              ELSE LET cap == RangeCheck(GetItem(tech.val, "recommended_capacity_kW"),
                                         Ok(Num(MAX_CAPACITY_KW))) IN
                   IF cap.exc # "none" THEN cap
                   ELSE IF ~cap.val.b THEN Ok(Bool(FALSE))
                   ELSE Ok(Bool(TRUE))

\* the function without its try/except
validate_solar_data_no_except(data) == ValidateBody(data)

\* try: <body> / except: return False
validate_solar_data(data) ==
    LET r == ValidateBody(data) IN
    IF r.exc # "none" THEN Ok(Bool(FALSE)) ELSE r

(***************************************************************************)
(* clean_json_response                                                     *)
(***************************************************************************)
\* the characters \s matches among those the model uses
IsSpace(c) == c \in {" ", "\n", "\t"}

\* the backquote character, written "^" (a TLA+ string cannot hold a backquote)
BQ == "^"

FENCE_JSON == <<BQ, BQ, BQ, "j", "s", "o", "n">>

FENCE == <<BQ, BQ, BQ>>

StartsWithAt(text, pat, i) ==
    /\ i + Len(pat) - 1 <= Len(text)
    /\ \A k \in 1..Len(pat) : text[i + k - 1] = pat[k]

\* the first index >= i that holds no whitespace (Len(text) + 1 if none)
RECURSIVE SkipSpaces(_, _)
SkipSpaces(text, i) ==
    IF i <= Len(text) /\ IsSpace(text[i]) THEN SkipSpaces(text, i + 1) ELSE i

\* the index of the leftmost occurrence of pat at or after i, 0 if none
NextMatch(text, pat, i) ==
    LET ms == {m \in i..Len(text) : StartsWithAt(text, pat, m)}
    IN IF ms = {} THEN 0 ELSE CHOOSE m \in ms : \A k \in ms : m <= k

\* re.sub(pat + r'\s*', '', text) from index i on: leftmost, non-overlapping
RECURSIVE SubFence(_, _, _)
SubFence(text, pat, i) ==
    LET m == NextMatch(text, pat, i)
    IN IF m = 0 THEN SubSeq(text, i, Len(text))
       ELSE SubSeq(text, i, m - 1)
            \o SubFence(text, pat, SkipSpaces(text, m + Len(pat)))

\* re.search(r'\{.*\}', text, re.DOTALL): from the first "{" to the last "}"
\* after it; <<0, 0>> when there is no match
SearchObject(text) ==
    LET opens == {i \in 1..Len(text) : text[i] = "{"}
        closes == {i \in 1..Len(text) : text[i] = "}"}
    IN IF opens = {} THEN <<0, 0>>
       ELSE LET first == CHOOSE i \in opens : \A j \in opens : i <= j
                later == {j \in closes : j > first}
            IN IF later = {} THEN <<0, 0>>
               ELSE <<first, CHOOSE j \in later : \A k \in later : k <= j>>

\* the second re.sub left out: only the tagged marker is removed
clean_json_response_tagged_only(text) ==
    LET t1 == SubFence(text, FENCE_JSON, 1)
        json_match == SearchObject(t1)
    IN IF json_match # <<0, 0>> THEN SubSeq(t1, json_match[1], json_match[2])
       ELSE t1

clean_json_response(text) ==
    LET t1 == SubFence(text, FENCE_JSON, 1)
        t2 == SubFence(t1, FENCE, 1)
        json_match == SearchObject(t2)
    IN IF json_match # <<0, 0>> THEN SubSeq(t2, json_match[1], json_match[2])
       ELSE t2

\* str.strip()
RECURSIVE RStrip(_)
RStrip(text) ==
    IF text # <<>> /\ IsSpace(text[Len(text)])
    THEN RStrip(SubSeq(text, 1, Len(text) - 1)) ELSE text

strip(text) ==
    LET r == RStrip(text) IN SubSeq(r, SkipSpaces(r, 1), Len(r))

(***************************************************************************)
(* The model's response and json.loads                                     *)
(*                                                                         *)
(* A JSON document is written as a sequence of characters in which a key,  *)
(* a number or a literal is one element: none of them contains a           *)
(* backquote, a brace or whitespace, the only characters the cleaner       *)
(* looks at.                                                               *)
(***************************************************************************)
KEY_ORDER ==
    <<"location_analysis", "technical_specifications", "energy_production",
      "financial_analysis", "environmental_impact", "regulatory_benefits",
      "recommendations", "error", "valid_data",
      "usable_roof_area_m2", "total_roof_area_m2", "recommended_capacity_kW",
      "panel_count", "average_daily_irradiance_kWh_per_m2",
      "system_efficiency_percent", "roof_orientation",
      "estimated_daily_generation_kWh", "estimated_monthly_generation_kWh",
      "estimated_annual_generation_kWh", "total_installation_cost_INR",
      "annual_electricity_savings_INR", "25_year_savings_INR",
      "payback_period_years", "return_on_investment_percent",
      "annual_CO2_reduction_kg", "25_year_CO2_reduction_tons",
      "equivalent_trees_planted", "subsidy_amount_INR",
      "net_metering_available", "feasibility_score", "key_advantages",
      "potential_challenges", "implementation_timeline_months">>

RECURSIVE Dumps(_)
RECURSIVE DumpItems(_, _, _)

\* the items of dict d from key number i on; first: no item was written yet
DumpItems(d, i, first) ==
    IF i > Len(KEY_ORDER) THEN <<>>
    ELSE IF KEY_ORDER[i] \in DOMAIN d
         THEN (IF first THEN <<>> ELSE <<",">>)
              \o <<KEY_ORDER[i], ":">> \o Dumps(d[KEY_ORDER[i]])
              \o DumpItems(d, i + 1, FALSE)
         ELSE DumpItems(d, i + 1, first)

\* the JSON text of a value
Dumps(v) ==
    CASE v.t = "num" -> <<ToString(v.n)>>
      [] v.t = "bool" -> IF v.b THEN <<"true">> ELSE <<"false">>
      [] v.t = "null" -> <<"null">>
      [] v.t = "nan" -> <<"NaN">>
      [] v.t = "str" -> <<"'">> \o DumpItems([k \in v.has |-> None], 1, TRUE) \o <<"'">>
      [] v.t = "list" -> <<"[">> \o DumpItems([k \in v.has |-> None], 1, TRUE) \o <<"]">>
      [] v.t = "dict" -> <<"{">> \o DumpItems(v.d, 1, TRUE) \o <<"}">>

\* the largest area an object of the model's response carries
MaxArea == 2

Tech(u, t, c) ==
    Dict("usable_roof_area_m2" :> Num(u) @@ "total_roof_area_m2" :> Num(t)
         @@ "recommended_capacity_kW" :> Num(c))

\* an object with the sections of the set present, tech as technical section
Sections(present, tech) ==
    [k \in present |-> IF k = "technical_specifications" THEN tech
                                                         ELSE Dict(<<>>)]

Required == {required_sections[i] : i \in 1..Len(required_sections)}

ValidTech == Tech(1, MaxArea, MAX_CAPACITY_KW)

ErrorMarker == Dict("error" :> Str({}) @@ "valid_data" :> Bool(FALSE))

\* the dict with every key of the set at the number 1
Numbers(keys) == [k \in keys |-> Num(1)]

\* an object with all seven sections of the schema, every field filled in
FullReport ==
    Dict("location_analysis" :> Dict("roof_orientation" :> Str({}))
         @@ "technical_specifications" :>
                Dict(ValidTech.d
                     @@ Numbers({"panel_count", "average_daily_irradiance_kWh_per_m2",
                                 "system_efficiency_percent"}))
         @@ "energy_production" :>
                Dict(Numbers({"estimated_daily_generation_kWh",
                              "estimated_monthly_generation_kWh",
                              "estimated_annual_generation_kWh"}))
         @@ "financial_analysis" :>
                Dict(Numbers({"total_installation_cost_INR",
                              "annual_electricity_savings_INR", "25_year_savings_INR",
                              "payback_period_years", "return_on_investment_percent"}))
         @@ "environmental_impact" :>
                Dict(Numbers({"annual_CO2_reduction_kg", "25_year_CO2_reduction_tons",
                              "equivalent_trees_planted"}))
         @@ "regulatory_benefits" :>
                Dict("subsidy_amount_INR" :> Num(1)
                     @@ "net_metering_available" :> Bool(TRUE))
         @@ "recommendations" :>
                Dict("feasibility_score" :> Num(1)
                     @@ "key_advantages" :> List({})
                     @@ "potential_challenges" :> List({})
                     @@ "implementation_timeline_months" :> Num(1)))

OptionalSections == {"environmental_impact", "regulatory_benefits", "recommendations"}

\* the dict without the key
Without(obj, key) == Dict([k \in DOMAIN obj.d \ {key} |-> obj.d[k]])

\* the values the model's response text can parse to
JsonValues ==
    { Dict(Sections(Required, Tech(u, 1, MAX_CAPACITY_KW))) : u \in 0..MaxArea }
    \cup { Dict(Sections(Required, ValidTech)) }
    \cup { Dict(Sections(Required, Tech(1, MaxArea, MAX_CAPACITY_KW + 1))) }
    \cup { Dict(Sections(Required, ValidTech) @@ x) :
             x \in { "valid_data" :> Bool(FALSE),
                     "valid_data" :> Bool(TRUE),
                     "valid_data" :> Num(0),
                     "error" :> Str({}) @@ "valid_data" :> Bool(FALSE),
                     "environmental_impact" :> Dict(<<>>) } }
    \cup { Dict(Sections(Required \ {k}, ValidTech)) :
             k \in {"financial_analysis", "technical_specifications"} }
    \cup { Dict(Sections(Required, Dict("usable_roof_area_m2" :> Num(1)))),
           ErrorMarker, Num(1), List({}) }
    \cup { FullReport }
    \cup { Without(FullReport, k) : k \in OptionalSections }

JsonTable == [v \in JsonValues |-> Dumps(v)]

\* json.loads: the value whose JSON text this is, JSONDecodeError if none
json_loads(text) ==
    IF \E v \in JsonValues : JsonTable[v] = text
    THEN Ok(CHOOSE v \in JsonValues : JsonTable[v] = text)
    ELSE Raise("JSONDecodeError")

\* how the model dresses a document: bare, in a ```json fence, in a ``` fence
Dress(w, doc) ==
    CASE w = "plain" -> doc
      [] w = "json_fence" -> FENCE_JSON \o <<"\n">> \o doc \o <<"\n">> \o FENCE
      [] w = "fence" -> FENCE \o <<"\n">> \o doc \o <<"\n">> \o FENCE \o <<"\n">>

\* texts that are no JSON document
Prose ==
    { <<"S", "o", "r", "r", "y">>,
      <<" ", "{", "o", "o", "p", "s">>,
      <<"H", "i", " ", "{", "x", "}", ".">> }

\* what model.generate_content(content) followed by response.text gives:
\* a text, or an exception with a message
Responses ==
    { [kind |-> "text", text |-> Dress(w, JsonTable[v])] :
          w \in {"plain", "json_fence", "fence"}, v \in JsonValues }
    \cup { [kind |-> "text", text |-> x] : x \in Prose }
    \cup { [kind |-> "raise", exc |-> "ResourceExhausted", msg |-> "quota exceeded"],
            [kind |-> "raise", exc |-> "JSONDecodeError", msg |-> "Expecting value"] }

(***************************************************************************)
(* visualize_detailed_report                                               *)
(***************************************************************************)
\* what the report does with a value it has looked up
\*   "number": a format of kind f, a comparison with a number, arithmetic
\*   "title":  .title()
\*   "each":   a for loop over it
\*   "any":    shown or tested as it is
Use(v, use) ==
    CASE use = "number" ->
             IF v.t \in {"num", "bool", "nan"} THEN Ok(None)
             ELSE IF v.t = "str" THEN Raise("ValueError")
             ELSE Raise("TypeError")
      [] use = "arith" ->
             IF v.t \in {"num", "bool", "nan"} THEN Ok(None) ELSE Raise("TypeError")
      [] use = "title" ->
             IF v.t = "str" THEN Ok(None) ELSE Raise("AttributeError")
      [] use = "each" ->
             IF v.t \in {"list", "str", "dict"} THEN Ok(None) ELSE Raise("TypeError")
      [] OTHER -> Ok(None)

\* the lookups data[section][field] of the report and the use of each, in
\* the order the function makes them
ReportSteps ==
    << <<"recommendations", "feasibility_score", "arith">>,
       <<"financial_analysis", "payback_period_years", "number">>,
       <<"environmental_impact", "annual_CO2_reduction_kg", "number">>,
       <<"financial_analysis", "return_on_investment_percent", "number">>,
       <<"technical_specifications", "usable_roof_area_m2", "number">>,
       <<"technical_specifications", "recommended_capacity_kW", "number">>,
       <<"technical_specifications", "panel_count", "any">>,
       <<"technical_specifications", "average_daily_irradiance_kWh_per_m2", "number">>,
       <<"location_analysis", "roof_orientation", "title">>,
       <<"technical_specifications", "system_efficiency_percent", "number">>,
       <<"energy_production", "estimated_monthly_generation_kWh", "arith">>,
       <<"energy_production", "estimated_daily_generation_kWh", "number">>,
       <<"energy_production", "estimated_monthly_generation_kWh", "number">>,
       <<"energy_production", "estimated_annual_generation_kWh", "number">>,
       <<"financial_analysis", "total_installation_cost_INR", "any">>,
       <<"regulatory_benefits", "subsidy_amount_INR", "any">>,
       <<"financial_analysis", "total_installation_cost_INR", "arith">>,
       <<"regulatory_benefits", "subsidy_amount_INR", "arith">>,
       <<"financial_analysis", "annual_electricity_savings_INR", "number">>,
       <<"financial_analysis", "25_year_savings_INR", "number">>,
       <<"regulatory_benefits", "net_metering_available", "any">>,
       <<"environmental_impact", "annual_CO2_reduction_kg", "number">>,
       <<"environmental_impact", "25_year_CO2_reduction_tons", "number">>,
       <<"environmental_impact", "equivalent_trees_planted", "number">>,
       <<"recommendations", "implementation_timeline_months", "any">>,
       <<"recommendations", "key_advantages", "each">>,
       <<"recommendations", "potential_challenges", "each">> >>

\* the steps from number i on: Ok(None), or the first exception raised
RECURSIVE RunReport(_, _)
RunReport(data, i) ==
    IF i > Len(ReportSteps) THEN Ok(None)
    ELSE LET section == GetItem(data, ReportSteps[i][1]) IN
         IF section.exc # "none" THEN section
         ELSE LET field == GetItem(section.val, ReportSteps[i][2]) IN
              IF field.exc # "none" THEN field
              ELSE LET used == Use(field.val, ReportSteps[i][3]) IN
                   IF used.exc # "none" THEN used
                   ELSE RunReport(data, i + 1)

\* the function has no try: what a lookup or a format raises leaves it
visualize_detailed_report(data) == RunReport(data, 1)

(***************************************************************************)
(* analyze_with_retry, perform_analysis and the two buttons                *)
(***************************************************************************)
\* the loop written as range(max_retries + 1)
max_retries_one_more == 3 + 1

max_retries == 3

DEFAULT_LAT == 28

DEFAULT_LON == 77

\* bool(v), as in "if result:"
Truthy(v) ==
    CASE v.t = "null" -> FALSE
      [] v.t = "bool" -> v.b
      [] v.t = "num" -> v.n # 0
      [] v.t = "dict" -> DOMAIN v.d # {}
      [] v.t \in {"str", "list"} -> v.has # {}
      [] OTHER -> TRUE

\* d.get(key)
DictGet(obj, key) == IF key \in DOMAIN obj.d THEN obj.d[key] ELSE None

\* "continue": the next iteration of the for loop, or line 382 after the last
Continue(w) ==
    /\ attempt' = attempt + 1
    /\ warnings' = warnings \o w
    /\ IF attempt + 1 < max_retries
       THEN /\ pc' = pc
            /\ UNCHANGED <<result, handed, presented>>
       ELSE /\ pc' = "done"
            /\ result' = None
            /\ UNCHANGED <<handed, presented>>
    /\ UNCHANGED <<errors, debug>>

\* "return res" after the st.error calls e and the st.code calls dbg, then
\* the rest of perform_analysis: "if result: visualize_detailed_report(result)";
\* presented is "skipped" when there is no result to show, "none" when the
\* report was drawn, and otherwise the exception that left
\* visualize_detailed_report and perform_analysis
Return(res, e, dbg) ==
    /\ pc' = "done"
    /\ result' = res
    /\ errors' = errors \o e
    /\ debug' = debug \o dbg
    /\ handed' = IF Truthy(res) THEN Append(handed, res) ELSE handed
    /\ presented' = IF Truthy(res) THEN visualize_detailed_report(res).exc
                                   ELSE "skipped"
    /\ UNCHANGED <<attempt, warnings>>

\* the exception leaves analyze_with_retry and perform_analysis uncaught
Propagate ==
    /\ pc' = "raised"
    /\ UNCHANGED <<attempt, warnings, errors, debug, result, handed, presented>>

\* the last clause written "except ValueError"
IsException_value_error_only(exc) ==
    exc \in {"ValueError", "JSONDecodeError"}

\* the classes "except Exception" catches
IsException(exc) ==
    exc \in {"ValueError", "JSONDecodeError", "TypeError", "KeyError",
             "ResourceExhausted"}

\* except Exception as e
HandleException(msg) ==
    IF attempt < max_retries - 1
    THEN Continue(<<>>)
    ELSE Return(None, <<[kind |-> "analysis_failed", msg |-> msg]>>, <<>>)

\* except json.JSONDecodeError
HandleDecodeError(raw) ==
    IF attempt < max_retries - 1
    THEN Continue(<<"json_parsing_error">>)
    ELSE Return(None, <<[kind |-> "parse_failure", msg |-> ""]>>,
                <<IF raw.bound THEN raw.text ELSE <<"No response received">>>>)

\* the except clauses of the try statement, in their order
Except(exc, msg, raw) ==
    IF exc = "JSONDecodeError" THEN HandleDecodeError(raw)
    ELSE IF IsException(exc) THEN HandleException(msg)
    ELSE Propagate

\* the flag read the wrong way round: parsed.get("valid_data") is True
IsErrorResponse_inverted(parsed) ==
    IsDict(parsed) /\ DictGet(parsed, "valid_data") = Bool(TRUE)

\* the flag tested for falsiness: not parsed.get("valid_data")
IsErrorResponse_falsy(parsed) ==
    IsDict(parsed) /\ ~Truthy(DictGet(parsed, "valid_data"))

\* isinstance(parsed, dict) and parsed.get("valid_data") is False
IsErrorResponse(parsed) ==
    IsDict(parsed) /\ DictGet(parsed, "valid_data") = Bool(FALSE)

\* one iteration of the for loop of analyze_with_retry, given what the
\* model call gives
Attempt(resp) ==
    /\ pc = "attempting"
    /\ calls' = calls + 1
    /\ response' = resp
    /\ UNCHANGED <<mode, lat, lon, arg, ret>>
    /\ IF resp.kind = "raise"
       THEN /\ Except(resp.exc, resp.msg, raw_text)
            /\ UNCHANGED <<raw_text, vlog>>
       ELSE LET raw == [bound |-> TRUE, text |-> strip(resp.text)]
                json_text == clean_json_response(raw.text)
                parsed == json_loads(json_text)
            IN /\ raw_text' = raw
               /\ IF parsed.exc # "none"
                  THEN /\ Except(parsed.exc, "Expecting value", raw)
                       /\ UNCHANGED vlog
                  ELSE IF IsErrorResponse(parsed.val)
                  THEN /\ Return(None, <<[kind |-> "invalid_input", msg |-> ""]>>, <<>>)
                       /\ UNCHANGED vlog
                  ELSE /\ vlog' = Append(vlog, attempt)
                       /\ IF validate_solar_data(parsed.val).val.b
                          THEN Return(parsed.val, <<>>, <<>>)
                          ELSE IF attempt < max_retries - 1
                          THEN Continue(<<"attempt_failed">>)
                          ELSE Except("ValueError", "Invalid data structure received", raw)

\* perform_analysis entered: analyze_with_retry starts its first iteration
StartAnalysis ==
    /\ pc' = "attempting"
    /\ UNCHANGED <<attempt, calls, response, raw_text, vlog, warnings,
                   errors, debug, result, handed, presented>>

\* the button "Analyze Solar Potential" of the image interface
ClickAnalyzeImage ==
    /\ pc = "idle"
    /\ mode' = "image"
    /\ StartAnalysis
    /\ UNCHANGED <<lat, lon, arg, ret>>

\* the button "Analyze Location" with the two number inputs at la and lo
ClickAnalyzeLocation(la, lo) ==
    /\ pc = "idle"
    /\ mode' = "coordinates"
    /\ lat' = la
    /\ lon' = lo
    /\ IF validate_coordinates(la, lo)
       THEN StartAnalysis
       ELSE /\ pc' = "done"
            /\ errors' = Append(errors, [kind |-> "invalid_coordinates", msg |-> ""])
            /\ UNCHANGED <<attempt, calls, response, raw_text, vlog, warnings,
                           debug, result, handed, presented>>
    /\ UNCHANGED <<arg, ret>>

\* how far past a limit the coordinates tried go
CoordSlack == 1

\* values the number inputs let through (min_value .. max_value)
WidgetLats == {DEFAULT_LAT, LAT_LIMIT}

WidgetLons == {DEFAULT_LON}

\* nothing clicked yet: the script has run down to the buttons
Idle ==
    /\ pc = "idle"
    /\ mode = "none"
    /\ lat = DEFAULT_LAT
    /\ lon = DEFAULT_LON
    /\ attempt = 0
    /\ calls = 0
    /\ response = [kind |-> "none"]
    /\ raw_text = [bound |-> FALSE, text |-> <<>>]
    /\ vlog = <<>>
    /\ warnings = <<>>
    /\ errors = <<>>
    /\ debug = <<>>
    /\ result = None
    /\ handed = <<>>
    /\ presented = "unreached"

Init ==
    /\ Idle
    /\ arg = None
    /\ ret = None

Next ==
    \/ ClickAnalyzeImage
    \/ \E la \in WidgetLats, lo \in WidgetLons : ClickAnalyzeLocation(la, lo)
    \/ \E resp \in Responses : Attempt(resp)

Spec == Init /\ [][Next]_vars

\* the loop of analyze_with_retry is sequential code: an iteration that can
\* run does run
FairSpec == Spec /\ WF_vars(\E resp \in Responses : Attempt(resp))

(***************************************************************************)
(* Properties of the retry controller                                      *)
(***************************************************************************)
\* what the controller parses out of a text response
ParsedOf(resp) == json_loads(clean_json_response(strip(resp.text)))

ParseFailed(resp) == resp.kind = "text" /\ ParsedOf(resp).exc # "none"

ParseFailureError == [kind |-> "parse_failure", msg |-> ""]

InvalidInputError == [kind |-> "invalid_input", msg |-> ""]

\* C1: the model is invoked at most 3 times per analysis request; after a
\* third consecutive parse failure the controller has ended with the
\* parse-failure error shown and an absent result, not with a 4th invocation.
C1_AtMostThreeAttempts ==
    /\ calls <= 3
    /\ (/\ calls = 3
        /\ ParseFailed(response)
        /\ warnings = <<"json_parsing_error", "json_parsing_error">>)
       => /\ pc = "done"
          /\ result = None
          /\ handed = <<>>
          /\ errors = <<ParseFailureError>>

C1_Witness ==
    /\ pc = "done"
    /\ calls = 3
    /\ ParseFailed(response)
    /\ warnings = <<"json_parsing_error", "json_parsing_error">>
    /\ errors = <<ParseFailureError>>

\* the response of the latest attempt parsed to an object with an error
\* field and valid_data: false
MarkerArrived ==
    /\ response.kind = "text"
    /\ LET p == ParsedOf(response)
       IN /\ p.exc = "none"
          /\ p.val.t = "dict"
          /\ {"error", "valid_data"} \subseteq DOMAIN p.val.d
          /\ p.val.d["valid_data"] = Bool(FALSE)

\* C2: when the response of attempt k is an explicit error marker the
\* controller has ended: invalid input is the one error shown, the result is
\* absent, exactly k invocations were made and none follows, and the
\* validator was not consulted on attempt k.
C2_MarkerEndsAtOnce ==
    /\ [](MarkerArrived =>
             /\ pc = "done"
             /\ result = None
             /\ handed = <<>>
             /\ errors = <<InvalidInputError>>
             /\ calls = attempt + 1
             /\ \A i \in 1..Len(vlog) : vlog[i] # attempt)
    /\ [][MarkerArrived => calls' = calls]_vars

C2_Witness ==
    /\ MarkerArrived
    /\ pc = "done"
    /\ calls = 2
    /\ errors = <<InvalidInputError>>

\* the response of the latest attempt parsed to an object the validator accepts
Accepted ==
    /\ response.kind = "text"
    /\ ParsedOf(response).exc = "none"
    /\ validate_solar_data(ParsedOf(response).val).val.b

\* the controller has ended in Success on the latest attempt, returning the
\* object parsed from its response
EndedInSuccess ==
    /\ pc = "done"
    /\ result = ParsedOf(response).val
    /\ handed = <<result>>
    /\ errors = <<>>
    /\ calls = attempt + 1

\* C3 as claimed: whenever the parsed object passes the validator the
\* controller ends in Success with that object, whatever other keys it has.
C3_AcceptedAlwaysReturned == Accepted => EndedInSuccess

CarriesValidDataFalse(v) ==
    v.t = "dict" /\ "valid_data" \in DOMAIN v.d /\ v.d["valid_data"] = Bool(FALSE)

\* C3 amended: whenever the parsed object passes the validator and does not
\* carry valid_data: false, the controller ends in Success on that attempt,
\* returns exactly that object, invokes the model no further and shows no error.
C3_AcceptedReturnedUnlessFlagged ==
    (Accepted /\ ~CarriesValidDataFalse(ParsedOf(response).val)) => EndedInSuccess

C3_Witness ==
    /\ Accepted
    /\ EndedInSuccess
    /\ "environmental_impact" \in DOMAIN result.d
    /\ calls = 2

\* 0 < a <= b between numbers
PositiveAtMost(a, b) ==
    /\ IsOrdered(a) /\ IsOrdered(b)
    /\ 0 < NumVal(a) /\ NumVal(a) <= NumVal(b)

\* the four sections are there and both ranges hold
WellFormed(v) ==
    /\ v.t = "dict"
    /\ {"location_analysis", "technical_specifications", "energy_production",
        "financial_analysis"} \subseteq DOMAIN v.d
    /\ LET tech == v.d["technical_specifications"]
       IN /\ tech.t = "dict"
          /\ {"usable_roof_area_m2", "total_roof_area_m2",
              "recommended_capacity_kW"} \subseteq DOMAIN tech.d
          /\ PositiveAtMost(tech.d["usable_roof_area_m2"],
                            tech.d["total_roof_area_m2"])
          /\ PositiveAtMost(tech.d["recommended_capacity_kW"], Num(1000))

\* C4: a result that is not absent, and so every object handed to
\* visualize_detailed_report, has the four required sections and satisfies
\* 0 < usable <= total and 0 < capacity <= 1000; it is the object parsed
\* from the latest response, never one that failed parsing or validation.
C4_ResultWellFormed ==
    /\ result # None =>
           /\ response.kind = "text"
           /\ ParsedOf(response).exc = "none"
           /\ result = ParsedOf(response).val
           /\ WellFormed(result)
    /\ \A i \in 1..Len(handed) : handed[i] = result /\ WellFormed(handed[i])

C4_Witness ==
    /\ result # None
    /\ handed = <<result>>
    /\ WellFormed(result)
    /\ calls = 3

\* C5: analyze_with_retry ends, lets no exception through to its caller, and
\* ends either in Success with the validated object and no error shown or
\* with an absent result after exactly one error message.
C5_EndsWithoutRaising ==
    /\ [](/\ pc # "raised"
          /\ pc = "done" =>
                 \/ /\ result # None
                    /\ result = ParsedOf(response).val
                    /\ WellFormed(result)
                    /\ errors = <<>>
                 \/ /\ result = None
                    /\ Len(errors) = 1)
    /\ (pc = "attempting") ~> (pc = "done")

C5_Witness ==
    /\ pc = "done"
    /\ calls = 3
    /\ response.kind = "raise"
    /\ response.exc = "ResourceExhausted"
    /\ result = None
    /\ errors = <<[kind |-> "analysis_failed", msg |-> "quota exceeded"]>>

(***************************************************************************)
(* The "Analyze Location" handler on any pair of numbers                   *)
(*                                                                         *)
(* The number inputs keep lat and lon within their limits; here the        *)
(* handler is run on values up to CoordSlack past them, the arguments      *)
(* validate_coordinates is written for.                                    *)
(***************************************************************************)
AnyLats ==
    (-LAT_LIMIT - CoordSlack .. -LAT_LIMIT) \cup (LAT_LIMIT .. LAT_LIMIT + CoordSlack)

AnyLons ==
    (-LON_LIMIT - CoordSlack .. -LON_LIMIT) \cup (LON_LIMIT .. LON_LIMIT + CoordSlack)

NextCoord ==
    \/ ClickAnalyzeImage
    \/ \E la \in AnyLats, lo \in AnyLons : ClickAnalyzeLocation(la, lo)
    \/ \E resp \in Responses : Attempt(resp)

SpecCoord == Init /\ [][NextCoord]_vars

InvalidCoordinatesError == [kind |-> "invalid_coordinates", msg |-> ""]

\* C10: in coordinate mode the analysis is started, and the model invoked,
\* exactly for -90 <= lat <= 90 and -180 <= lon <= 180; for any other pair
\* the handler ends with the invalid-coordinates error and no invocation.
C10_CoordinatesGateAnalysis ==
    mode = "coordinates" =>
        IF -90 <= lat /\ lat <= 90 /\ -180 <= lon /\ lon <= 180
        THEN /\ pc \in {"attempting", "done"}
             /\ pc = "done" => calls >= 1
             /\ \A i \in 1..Len(errors) : errors[i] # InvalidCoordinatesError
        ELSE /\ pc = "done"
             /\ calls = 0
             /\ response.kind = "none"
             /\ result = None
             /\ handed = <<>>
             /\ errors = <<InvalidCoordinatesError>>

C10_Witness ==
    /\ mode = "coordinates"
    /\ lat = 90
    /\ lon = -181
    /\ pc = "done"
    /\ calls = 0
    /\ errors = <<InvalidCoordinatesError>>

(***************************************************************************)
(* validate_solar_data on its own                                          *)
(***************************************************************************)
\* how far around 0 and around the capacity limit the capacities tried go
CapSlack == 1

\* the empty dict, or the dict with the one key at one of the values
OptField(key, vals) == {<<>>} \cup {key :> v : v \in vals}

AreaValues ==
    {Num(n) : n \in -1..MaxArea} \cup {Bool(TRUE), NaN, Str({})}

CapacityValues ==
    {Num(n) : n \in (-CapSlack..CapSlack)
                    \cup (MAX_CAPACITY_KW - CapSlack .. MAX_CAPACITY_KW + CapSlack)}
    \cup {NaN, Str({})}

TechDicts ==
    { Dict(a @@ b @@ c @@ x) :
          a \in OptField("usable_roof_area_m2", AreaValues),
          b \in OptField("total_roof_area_m2", AreaValues),
          c \in OptField("recommended_capacity_kW", CapacityValues),
          x \in OptField("panel_count", {Num(3)}) }

TopExtras ==
    { <<>>,
      "error" :> Str({}) @@ "valid_data" :> Bool(FALSE),
      "recommendations" :> Dict(<<>>) }

NonDicts ==
    { None, Num(1), Bool(TRUE), NaN, Str({}), Str(Required), List({}),
      List(Required) }

\* what validate_solar_data is applied to in this specification
ValidatorInputs ==
    { Dict(Sections(Required, tech) @@ x) : tech \in TechDicts, x \in TopExtras }
    \cup { Dict(Sections(present, tech)) :
             present \in (SUBSET Required) \ {Required},
             tech \in {ValidTech, Tech(MaxArea, 1, 0)} }
    \cup { Dict(Sections(Required, tech)) : tech \in NonDicts }
    \cup NonDicts

InitValidate ==
    /\ Idle
    /\ arg \in ValidatorInputs
    /\ ret = None

\* the call validate_solar_data(arg)
CallValidate ==
    /\ pc = "idle"
    /\ pc' = "done"
    /\ ret' = validate_solar_data(arg)
    /\ UNCHANGED <<mode, lat, lon, attempt, calls, response, raw_text, vlog,
                   warnings, errors, debug, result, handed, presented, arg>>

NextValidate == CallValidate

SpecValidate == InitValidate /\ [][NextValidate]_vars

TechKeys == {"usable_roof_area_m2", "total_roof_area_m2", "recommended_capacity_kW"}

\* no record, or a record without one of the four sections
LacksSection(v) ==
    \/ v.t # "dict"
    \/ \E k \in {"location_analysis", "technical_specifications",
                 "energy_production", "financial_analysis"} : k \notin DOMAIN v.d

\* the technical section is no record or is without one of the three fields
LacksTechField(v) ==
    /\ v.t = "dict"
    /\ "technical_specifications" \in DOMAIN v.d
    /\ LET tech == v.d["technical_specifications"]
       IN \/ tech.t # "dict"
          \/ \E k \in TechKeys : k \notin DOMAIN tech.d

\* C6: validate_solar_data returns False, and raises nothing, for every
\* input without one of the four required sections or whose technical
\* section is without one of the three fields, inputs that are no records
\* included.
C6_IncompleteIsInvalid ==
    (pc = "done" /\ (LacksSection(arg) \/ LacksTechField(arg)))
        => ret = Ok(Bool(FALSE))

C6_Witness ==
    /\ pc = "done"
    /\ ~LacksSection(arg)
    /\ LET tech == arg.d["technical_specifications"]
       IN /\ tech.t = "dict"
          /\ DOMAIN tech.d = {"usable_roof_area_m2", "total_roof_area_m2"}
          /\ PositiveAtMost(tech.d["usable_roof_area_m2"],
                            tech.d["total_roof_area_m2"])
    /\ ret = Ok(Bool(FALSE))

\* int, float or bool
IsNumber(v) == v.t \in {"num", "bool", "nan"}

\* the four sections are there and the three fields are numbers
Complete(v) ==
    /\ ~LacksSection(v)
    /\ ~LacksTechField(v)
    /\ \A k \in TechKeys : IsNumber(v.d["technical_specifications"].d[k])

\* C7: on an object with the four sections and numeric usable, total and
\* capacity the verdict is valid exactly when 0 < usable <= total and
\* 0 < capacity <= 1000, whatever else the object holds.
C7_VerdictIsTheRanges ==
    (pc = "done" /\ Complete(arg)) =>
        LET tech == arg.d["technical_specifications"].d
        IN ret = Ok(Bool(/\ PositiveAtMost(tech["usable_roof_area_m2"],
                                           tech["total_roof_area_m2"])
                         /\ PositiveAtMost(tech["recommended_capacity_kW"],
                                           Num(1000))))

C7_Witness ==
    /\ pc = "done"
    /\ Complete(arg)
    /\ "valid_data" \in DOMAIN arg.d
    /\ LET tech == arg.d["technical_specifications"].d
       IN /\ tech["usable_roof_area_m2"] = tech["total_roof_area_m2"]
          /\ tech["usable_roof_area_m2"] = Num(MaxArea)
          /\ tech["recommended_capacity_kW"] = Num(1000)
    /\ ret = Ok(Bool(TRUE))

(***************************************************************************)
(* clean_json_response on its own                                          *)
(***************************************************************************)
\* the number of pieces a text tried is made of
MaxPieces == 4

\* the number of pieces between the braces of an object tried inside a fence
MaxBody == 2

Pieces ==
    { FENCE_JSON, FENCE, <<BQ>>, <<"j">>, <<"{">>, <<"}">>, <<"a">>, <<" ">>,
      <<"\n">> }

RECURSIVE Flatten(_, _)
Flatten(ps, i) == IF i > Len(ps) THEN <<>> ELSE ps[i] \o Flatten(ps, i + 1)

\* the texts made of at most n pieces
TextsOf(n) == UNION { { Flatten(ps, 1) : ps \in [1..k -> Pieces] } : k \in 0..n }

\* how a fence wraps a document: what comes before it and what after
FenceForms ==
    { <<FENCE_JSON \o <<"\n">>, <<"\n">> \o FENCE>>,
      <<FENCE \o <<"\n">>, <<"\n">> \o FENCE>>,
      <<FENCE \o <<" ">>, <<" ">> \o FENCE>> }

\* texts that are one {...} object
ObjectTexts == { <<"{">> \o body \o <<"}">> : body \in TextsOf(MaxBody) }

\* what clean_json_response is applied to in this specification
CleanInputs ==
    TextsOf(MaxPieces)
    \cup ObjectTexts
    \cup { f[1] \o x \o f[2] : f \in FenceForms, x \in ObjectTexts }

InitClean ==
    /\ Idle
    /\ arg \in CleanInputs
    /\ ret = <<>>

\* the call clean_json_response(arg)
CallClean ==
    /\ pc = "idle"
    /\ pc' = "done"
    /\ ret' = clean_json_response(arg)
    /\ UNCHANGED <<mode, lat, lon, attempt, calls, response, raw_text, vlog,
                   warnings, errors, debug, result, handed, presented, arg>>

NextClean == CallClean

SpecClean == InitClean /\ [][NextClean]_vars

\* no "{" with a "}" somewhere after it
NoSpan(text) ==
    ~ \E i, j \in 1..Len(text) : i < j /\ text[i] = "{" /\ text[j] = "}"

\* three backquotes in a row somewhere
HasFence(text) ==
    \E i \in 1..Len(text) : StartsWithAt(text, <<BQ, BQ, BQ>>, i)

\* sub is text with some characters left out
RECURSIVE IsSubsequence(_, _)
IsSubsequence(sub, text) ==
    IF sub = <<>> THEN TRUE
    ELSE IF text = <<>> THEN FALSE
    ELSE IF Head(sub) = Head(text) THEN IsSubsequence(Tail(sub), Tail(text))
    ELSE IsSubsequence(sub, Tail(text))

\* C8 as claimed: a text without a {...} span is returned unchanged, the
\* code-fence markers in it included.
C8_SpanlessReturnedUnchanged ==
    (pc = "done" /\ NoSpan(arg)) => ret = arg

\* C8 amended: a text without a {...} span is returned unchanged when it
\* holds no code-fence marker; when it holds one, what is returned is the
\* text with characters left out and without any marker.
C8_SpanlessReturnedWithoutFences ==
    (pc = "done" /\ NoSpan(arg)) =>
        IF HasFence(arg)
        THEN /\ ~HasFence(ret)
             /\ Len(ret) < Len(arg)
             /\ IsSubsequence(ret, arg)
        ELSE ret = arg

C8_Witness ==
    /\ pc = "done"
    /\ NoSpan(arg)
    /\ HasFence(arg)
    /\ \E i \in 1..Len(arg) : arg[i] = "}"
    /\ ret # <<>>
    /\ ret # arg

\* text is a {...} object wrapped in the fence form f
IsFencedObject(text, f) ==
    /\ Len(text) >= Len(f[1]) + Len(f[2]) + 2
    /\ StartsWithAt(text, f[1], 1)
    /\ StartsWithAt(text, f[2], Len(text) - Len(f[2]) + 1)
    /\ text[Len(f[1]) + 1] = "{"
    /\ text[Len(text) - Len(f[2])] = "}"

Unwrapped(text, f) == SubSeq(text, Len(f[1]) + 1, Len(text) - Len(f[2]))

\* C9: for a text x that is one {...} object, the cleaner applied to x in a
\* tagged or a bare fence gives exactly x.
C9_FencedObjectComesOutIntact ==
    pc = "done" =>
        \A f \in FenceForms :
            IsFencedObject(arg, f) => ret = Unwrapped(arg, f)

(***************************************************************************)
(* Retries, terminal errors and the presentation step                      *)
(***************************************************************************)
\* what an attempt with this response is: a failure that is retried
\* ("parse", "validation", "other"), or "marker" or "success"
OutcomeKind(resp) ==
    IF resp.kind = "raise" THEN "other"
    ELSE LET p == ParsedOf(resp) IN
         IF p.exc # "none" THEN "parse"
         ELSE IF CarriesValidDataFalse(p.val) THEN "marker"
         ELSE IF WellFormed(p.val) THEN "success"
         ELSE "validation"

\* the error the claim has a third failure of this kind surface
TerminalError(resp) ==
    CASE OutcomeKind(resp) = "parse" -> ParseFailureError
      [] OutcomeKind(resp) = "validation" ->
             [kind |-> "analysis_failed", msg |-> "Invalid data structure received"]
      [] OutcomeKind(resp) = "other" ->
             [kind |-> "analysis_failed", msg |-> resp.msg]

\* C11: every failure that is not terminal (parse failure, validation
\* failure, any other exception) takes one attempt; the first two are
\* retried, one after another exception without a diagnostic; the third ends
\* the run after exactly 3 invocations with the error of its own kind alone:
\* the parse-failure error with the third attempt's raw response, the
\* invalid-data-structure error, or the message of the exception.
C11_ThirdFailureDecidesError ==
    [][(/\ calls' = calls + 1
        /\ OutcomeKind(response') \in {"parse", "validation", "other"})
       => IF calls' < 3
          THEN /\ pc' = "attempting"
               /\ attempt' = attempt + 1
               /\ errors' = <<>>
               /\ OutcomeKind(response') = "other" => warnings' = warnings
          ELSE /\ calls' = 3
               /\ pc' = "done"
               /\ result' = None
               /\ errors' = <<TerminalError(response')>>
               /\ debug' = IF OutcomeKind(response') = "parse"
                           THEN <<strip(response'.text)>> ELSE <<>>]_vars

\* C12: after analyze_with_retry has returned a result, the presentation
\* step of perform_analysis completes without raising, also for a validated
\* result without one of the optional sections.
C12_ValidatedResultIsPresented ==
    (pc = "done" /\ result # None) => presented = "none"

====
